---- MODULE Spec2Model ----
(***************************************************************************)
(* Inter-agent coordination protocol of code-analyzer-mcp.                 *)
(*                                                                         *)
(* CoordinationManager (src/src/utils/analysis-metrics.js, 351-549) runs   *)
(* rounds over every unordered pair of agents; BaseAgent                   *)
(* (src/unnamed/part_006, 554-760) appends Comments to its working file    *)
(* and answers questions.  MarkdownManager (utils/markdown-manager.js) is  *)
(* not part of the available sources: its operations are modelled from     *)
(* section 4.1 of the specification.                                       *)
(*                                                                         *)
(* JavaScript runs one synchronous block at a time: a block ends at an     *)
(* await on real I/O (the answer producer) or at the Promise.all barrier.  *)
(* Each action below is one such block.                                    *)
(***************************************************************************)
EXTENDS Naturals, Sequences, FiniteSets, TLC

\* ------------------------------------------------------------------ bounds
MaxComments == 2
BudgetDepth == 2
MaxUpdates == 1
MaxCalls == 2
MaxContentLen == 2
MaxFileLen == 3
MaxDocLen == 9

\* --------------------------------------------------------------- constants
\* this.maxRounds = 3 in the constructor; smaller budgets are configured by
\* assigning the field
DefaultMaxRounds == 3
Names == {"a", "b", "c"}
AgentLists == {<<"a", "b">>, <<"a", "b", "c">>}
OutputDirs == {"output", "reports"}
NoResponse == "<absent>"
AnswerText == "answer"
ErrorText == "I encountered an error while trying to respond"
\* what the awaited answer call can do: the producer returns a text (of any
\* content, the empty text included), the producer fails inside
\* respondToQuestion, or the call itself rejects
Outcomes == {"ok", "fail", "throw"}

VARIABLES
  agents,        \* the Map passed to startCoordinationRound, as a list
  maxRounds,     \* this.maxRounds
  currentRound,  \* this.currentRound
  roundLimits,   \* this.roundLimits : pairKey -> count
  outputDir,     \* directory the agents were initialised with
  staleOutput,   \* outputDir # 'output' and output/<name>-analysis.md exists
  unreadable,    \* agents whose workingFile cannot be read (not initialised)
  logWritable,   \* whether error-log.md can be written
  ledger,        \* agent name -> Comments of its working file, in order
  nextId,        \* next Comment id MarkdownManager.addComment hands out
  errorLog,      \* entries of error-log.md
  consoleErr,    \* entries that fell back to console.error
  pc,            \* "analysis" | "round" | "done" | "crashed"
  tasks,         \* coordinationPromises of the round in progress
  roundsRun,     \* history: rounds executed
  tasksStarted,  \* history: facilitateCoordination calls
  attempts,      \* history: answer calls [id, round, outcome]
  skippedAt,     \* history: [pair, round, count] skipped on budget
  startedAt,     \* history: [pair, round, count] handed to facilitateCoordination
  selected,      \* history: [id, round, asking, answering] returned by checkForQuestions
  reportBody,    \* agent name -> revision of the report text of its working file
  call,          \* the running call of startCoordinationRound: its number, and
                 \* currentRound and roundsRun at its entry
  workingMemory, \* the text of one agent's working file, as a sequence of tokens
  updateResult   \* how the last operation on that text ended

vars == <<agents, maxRounds, currentRound, roundLimits, outputDir, staleOutput,
          unreadable, logWritable, ledger, nextId, errorLog, consoleErr, pc,
          tasks, roundsRun, tasksStarted, attempts, skippedAt, startedAt,
          selected, reportBody, call, workingMemory, updateResult>>

AgentSet == {agents[i] : i \in 1..Len(agents)}

\* ------------------------------------------------------- CoordinationManager
\* `${agent1.name}-${agent2.name}`
PairKey(n1, n2) == n1 \o "-" \o n2

RECURSIVE PairsFrom(_, _, _)
PairsFrom(agentList, i, j) ==
  IF i > Len(agentList) THEN <<>>
  ELSE IF j > Len(agentList) THEN PairsFrom(agentList, i + 1, i + 2)
  ELSE <<<<agentList[i], agentList[j]>>>> \o PairsFrom(agentList, i, j + 1)

\* an inner loop that starts at j = i for the first agent
getAgentPairsOrdered(agentList) == PairsFrom(agentList, 1, 1)

getAgentPairs(agentList) == PairsFrom(agentList, 1, 2)

getRoundCount(limits, pairKey) ==
  IF pairKey \in DOMAIN limits THEN limits[pairKey] ELSE 0

\* an increment that does not read the current count
incrementRoundCountSet(limits, pairKey) ==
  [k \in DOMAIN limits \cup {pairKey} |-> IF k = pairKey THEN 1 ELSE limits[k]]

incrementRoundCount(limits, pairKey) ==
  [k \in DOMAIN limits \cup {pairKey} |->
     IF k = pairKey THEN getRoundCount(limits, pairKey) + 1 ELSE limits[k]]

\* a budget test that lets a pair at its budget through
BudgetExceeded(count, maxR) == count > maxR

\* the budget test at the head of the pair loop
BudgetExhausted(count, maxR) == count >= maxR

\* a write of the entry without the existing content
appendToErrorLogOverwrite(out, entry) ==
  IF logWritable THEN [out EXCEPT !.errorLog = <<entry>>]
  ELSE [out EXCEPT !.consoleErr = Append(@, entry)]

\* appendToErrorLog: the entry reaches the file, or console.error when the
\* write fails; out is [errorLog, consoleErr]
appendToErrorLog(out, entry) ==
  IF logWritable THEN [out EXCEPT !.errorLog = Append(@, entry)]
  ELSE [out EXCEPT !.consoleErr = Append(@, entry)]

\* logCoordinationTimeout(agentPair, questions): count is questions.length
TimeoutEntry(pairKey, questions) ==
  [kind |-> "timeout", pair |-> pairKey, count |-> Len(questions)]

\* logError(message) of facilitateCoordination's catch
CoordinationError(n1, n2) ==
  [kind |-> "error", pair |-> n1 \o " and " \o n2, count |-> 0]

\* logError(message) of processQuestions' catch
QuestionError(asking, answering) ==
  [kind |-> "error", pair |-> asking \o " to " \o answering, count |-> 0]

\* a filter without the test of the round
MatchesAnyRound(c, toAgentName, round) ==
  /\ c.targetAgent = toAgentName
  /\ c.status = "pending"

\* the filter of checkForQuestions
Matches(c, toAgentName, round) ==
  /\ c.targetAgent = toAgentName
  /\ c.status = "pending"
  /\ c.round = round

\* checkForQuestions(fromAgent, toAgentName): ids of the selected Comments
checkForQuestions(led, fromAgent, toAgentName, round) ==
  LET sel == SelectSeq(led[fromAgent], LAMBDA c : Matches(c, toAgentName, round))
  IN  [k \in 1..Len(sel) |-> sel[k].id]

DoneTask(n1, n2) ==
  [agent1 |-> n1, agent2 |-> n2, phase |-> "done", queue |-> <<>>]

\* facilitateCoordination from "Check if agent2 has questions for agent1" up
\* to its first await: [task, errors]
SecondDirection(led, n1, n2, round) ==
  IF n2 \in unreadable
  THEN [task |-> DoneTask(n1, n2), errors |-> <<CoordinationError(n1, n2)>>]
  ELSE LET q == checkForQuestions(led, n2, n1, round)
       IN  IF Len(q) > 0
           THEN [task |-> [agent1 |-> n1, agent2 |-> n2, phase |-> "q21", queue |-> q],
                 errors |-> <<>>]
           ELSE [task |-> DoneTask(n1, n2), errors |-> <<>>]

\* a try/catch around each direction instead of around both
FirstDirectionIsolated(led, n1, n2, round) ==
  IF n1 \in unreadable
  THEN LET second == SecondDirection(led, n1, n2, round)
       IN  [task |-> second.task,
            errors |-> <<CoordinationError(n1, n2)>> \o second.errors]
  ELSE LET q == checkForQuestions(led, n1, n2, round)
       IN  IF Len(q) > 0
           THEN [task |-> [agent1 |-> n1, agent2 |-> n2, phase |-> "q12", queue |-> q],
                 errors |-> <<>>]
           ELSE SecondDirection(led, n1, n2, round)

\* facilitateCoordination from its entry up to its first await
FirstDirection(led, n1, n2, round) ==
  IF n1 \in unreadable
  THEN [task |-> DoneTask(n1, n2), errors |-> <<CoordinationError(n1, n2)>>]
  ELSE LET q == checkForQuestions(led, n1, n2, round)
       IN  IF Len(q) > 0
           THEN [task |-> [agent1 |-> n1, agent2 |-> n2, phase |-> "q12", queue |-> q],
                 errors |-> <<>>]
           ELSE SecondDirection(led, n1, n2, round)

\* the Comments a pair task holds from its last checkForQuestions, with the
\* agent that asked and the agent whose respondToQuestion is awaited
QuestionsOf(task, round) ==
  {[id |-> task.queue[k], round |-> round,
    asking |-> IF task.phase = "q12" THEN task.agent1 ELSE task.agent2,
    answering |-> IF task.phase = "q12" THEN task.agent2 ELSE task.agent1] :
     k \in 1..Len(task.queue)}

\* the for loop of processQuestions after one question: the try/catch is
\* inside the loop, so a failed question does not end it
RemainingQuestionsAbort(queue, failed) == IF failed THEN <<>> ELSE Tail(queue)

RemainingQuestions(queue, failed) == Tail(queue)

RECURSIVE LogAll(_, _)
LogAll(out, entries) ==
  IF entries = <<>> THEN out
  ELSE LogAll(appendToErrorLog(out, Head(entries)), Tail(entries))

\* the pair loop of startCoordinationRound, one synchronous block; acc carries
\* what the loop writes
RECURSIVE PairLoop(_, _, _, _)
PairLoop(pairs, i, round, acc) ==
  IF i > Len(pairs) THEN acc
  ELSE
    LET n1 == pairs[i][1]
        n2 == pairs[i][2]
        pairKey == PairKey(n1, n2)
        seen == [pair |-> pairs[i], round |-> round,
                 count |-> getRoundCount(roundLimits, pairKey)]
    IN  IF BudgetExhausted(getRoundCount(roundLimits, pairKey), maxRounds)
        THEN PairLoop(pairs, i + 1, round,
               [acc EXCEPT !.out = appendToErrorLog(@, TimeoutEntry(pairKey, <<>>)),
                           !.skippedAt = @ \cup {seen}])
        ELSE LET f == FirstDirection(ledger, n1, n2, round)
             IN  PairLoop(pairs, i + 1, round,
                   [acc EXCEPT !.tasks = Append(@, f.task),
                               !.out = LogAll(@, f.errors),
                               !.startedAt = @ \cup {seen},
                               !.tasksStarted = @ + 1])

\* startCoordinationRound up to `await Promise.all`
RunRound(round) ==
  LET acc == PairLoop(getAgentPairs(agents), 1, round,
               [tasks |-> <<>>,
                out |-> [errorLog |-> errorLog, consoleErr |-> consoleErr],
                skippedAt |-> skippedAt, startedAt |-> startedAt,
                tasksStarted |-> tasksStarted])
  IN  /\ tasks' = acc.tasks
      /\ errorLog' = acc.out.errorLog
      /\ consoleErr' = acc.out.consoleErr
      /\ skippedAt' = acc.skippedAt
      /\ startedAt' = acc.startedAt
      /\ tasksStarted' = acc.tasksStarted
      /\ selected' = selected \cup
           UNION {QuestionsOf(acc.tasks[i], round) : i \in 1..Len(acc.tasks)}
      /\ roundsRun' = roundsRun + 1
      /\ pc' = "round"

\* checkPendingQuestions(agents): the pending Comments of every agent's ledger
checkPendingQuestions(led, agentList) ==
  {c \in UNION {{led[agentList[i]][k] : k \in 1..Len(led[agentList[i]])} :
                  i \in 1..Len(agentList)} : c.status = "pending"}

hasPendingQuestions(led, agentList) ==
  Cardinality(checkPendingQuestions(led, agentList)) > 0

\* a round budget that is off by one
RoundsLeftInclusive(cur, maxR) == cur <= maxR

\* the guard of the recursive call, left operand
RoundsLeft(cur, maxR) == cur < maxR

\* --------------------------------------------------------- MarkdownManager
\* a resolution that overwrites whatever the Comment holds
respondToCommentOverwrite(comments, id, response) ==
  [k \in 1..Len(comments) |->
     IF comments[k].id = id
     THEN [comments[k] EXCEPT !.status = "resolved", !.response = response]
     ELSE comments[k]]

\* respondToComment by id: pending -> resolved with the response; a Comment
\* already resolved keeps its first response; an unknown id changes nothing
respondToComment(comments, id, response) ==
  [k \in 1..Len(comments) |->
     IF comments[k].id = id /\ comments[k].status = "pending"
     THEN [comments[k] EXCEPT !.status = "resolved", !.response = response]
     ELSE comments[k]]

\* respondToComment on a working file: the coordination region changes as
\* above, the report text is left alone
respondToCommentIn(doc, id, response) ==
  [doc EXCEPT !.comments = respondToComment(@, id, response)]

\* addComment: a new pending Comment at the end of the ledger
addCommentTo(comments, id, targetAgent, round) ==
  Append(comments, [id |-> id, targetAgent |-> targetAgent, round |-> round,
                    status |-> "pending", response |-> NoResponse])

\* ---------------------------------------------------------------- BaseAgent
\* respondToQuestion: what the call returns for a producer outcome
respondToQuestion(outcome) ==
  CASE outcome = "ok" -> AnswerText
    [] outcome = "fail" -> ErrorText

\* findAgentFile(agentName): the directory it looks in
findAgentFileDir == "output"

\* a write of the response into the report text instead of the Comment
WriteResponseIntoReport(doc, id, response) ==
  [doc EXCEPT !.reportBody = @ + 1]

\* processQuestions: what it does to the asking agent's file with the response
WriteResponse(doc, id, response) == respondToCommentIn(doc, id, response)

TotalComments == Len(ledger["a"]) + Len(ledger["b"]) + Len(ledger["c"])

\* Comment ids are opaque: the analysis phase appends Comments in
\* non-decreasing order of (asking agent, target, round), which fixes only
\* which id a Comment gets
NameIndex(n) == CASE n = "a" -> 1 [] n = "b" -> 2 [] n = "c" -> 3
Rank(a, t, r) == (NameIndex(a) * 4 + NameIndex(t)) * (DefaultMaxRounds + 2) + r
LastRank ==
  IF nextId = 1 THEN 0
  ELSE LET a == CHOOSE n \in Names : \E k \in 1..Len(ledger[n]) : ledger[n][k].id = nextId - 1
           c == ledger[a][Len(ledger[a])]
       IN  Rank(a, c.targetAgent, c.round)

\* no call of startCoordinationRound made yet
NoCall == [n |-> 0, round |-> 0, rounds |-> 0]

\* ------------------------------------------------------------ working file
\* the text of a working file as a sequence of tokens: the heading
\* '## Analysis Results', the heading '## Coordination', the separator '\n\n'
\* and any other text
ResultsMarker == "## Analysis Results"
CoordinationMarker == "## Coordination"
Separator == "nl"
OtherText == "text"

\* the file after initialize(): a title, the two headings, a placeholder body
\* and an empty ledger
NewWorkingFile ==
  <<OtherText, ResultsMarker, OtherText, CoordinationMarker, OtherText>>

\* content.indexOf(marker), counted from 1; 0 stands for -1
IndexOf(content, marker) ==
  IF \E i \in 1..Len(content) : content[i] = marker
  THEN CHOOSE i \in 1..Len(content) :
         /\ content[i] = marker
         /\ \A j \in 1..(i - 1) : content[j] # marker
  ELSE 0

\* the fallback for an analysisContent that is empty, null or undefined
ContentOrFallback(analysisContent) ==
  IF analysisContent = <<>> THEN <<OtherText>> ELSE analysisContent

\* updateAnalysisSection(analysisContent) on the text currentContent: whether
\* it throws, and the text of the file afterwards
updateAnalysisSection(currentContent, analysisContent) ==
  LET resultsStart == IndexOf(currentContent, ResultsMarker)
      coordinationStart == IndexOf(currentContent, CoordinationMarker)
  IN  IF resultsStart = 0 \/ coordinationStart = 0
      THEN [threw |-> TRUE, content |-> currentContent]
      ELSE [threw |-> FALSE,
            content |-> SubSeq(currentContent, 1, resultsStart)
                        \o <<Separator>> \o ContentOrFallback(analysisContent)
                        \o <<Separator>>
                        \o SubSeq(currentContent, coordinationStart, Len(currentContent))]

\* the storage faults of one run: none, or one of them
\* the number of pair tasks of a round
NumTasks(agentList) == (Len(agentList) * (Len(agentList) - 1)) \div 2

NoFault == [outputDir |-> "output", staleOutput |-> FALSE, unreadable |-> {},
            logWritable |-> TRUE]
FaultConfigs(S) ==
  {NoFault,
   [NoFault EXCEPT !.outputDir = "reports"],
   [NoFault EXCEPT !.outputDir = "reports", !.staleOutput = TRUE],
   [NoFault EXCEPT !.logWritable = FALSE]}
  \cup {[NoFault EXCEPT !.unreadable = {n}] : n \in S}

\* ------------------------------------------------------------------- Init
\* the state after construction of the manager and initialisation of the
\* agents of agentList, under one of the fault configurations
InitWith(agentList, budgets, faults, led) ==
  /\ agents = agentList
  /\ maxRounds \in budgets
  /\ currentRound = 1
  /\ roundLimits = [k \in {} |-> 0]
  /\ \E f \in faults :
       /\ outputDir = f.outputDir
       /\ staleOutput = f.staleOutput
       /\ unreadable = f.unreadable
       /\ logWritable = f.logWritable
  /\ ledger = led
  /\ nextId = Len(led["a"]) + Len(led["b"]) + Len(led["c"]) + 1
  /\ errorLog = <<>>
  /\ consoleErr = <<>>
  /\ pc = "analysis"
  /\ tasks = <<>>
  /\ roundsRun = 0
  /\ tasksStarted = 0
  /\ attempts = {}
  /\ skippedAt = {}
  /\ startedAt = {}
  /\ selected = {}
  /\ reportBody = [n \in Names |-> 0]
  /\ call = NoCall
  /\ workingMemory = NewWorkingFile
  /\ updateResult = "none"

NoComments == [n \in Names |-> <<>>]

\* two agents under every fault configuration; three agents under the faults
\* of their working files (the faults of the output directory and of the log
\* with three agents are those of SpecFaults)
Init ==
  \E agentList \in AgentLists :
    InitWith(agentList, 1..DefaultMaxRounds,
             {f \in FaultConfigs({agentList[i] : i \in 1..Len(agentList)}) :
                Len(agentList) > 2 => (f.outputDir = findAgentFileDir /\ f.logWritable)},
             NoComments)

\* ---------------------------------------------------------------- actions
\* BaseAgent.addComment during the agent's analysis phase
AddComment(a, t, r) ==
  /\ pc = "analysis"
  /\ a \in AgentSet
  /\ a \notin unreadable            \* workingFile is null: addComment throws
  /\ TotalComments < MaxComments
  /\ r <= maxRounds
  /\ Rank(a, t, r) >= LastRank
  /\ ledger' = [ledger EXCEPT ![a] = addCommentTo(@, nextId, t, r)]
  /\ nextId' = nextId + 1
  /\ UNCHANGED <<call, workingMemory, updateResult,
                 agents, maxRounds, currentRound, roundLimits, outputDir,
                 staleOutput, unreadable, logWritable, errorLog, consoleErr, pc,
                 tasks, roundsRun, tasksStarted, attempts, skippedAt, startedAt,
                 selected, reportBody>>

\* BaseAgent.updateAnalysisSection during the agent's analysis phase: the
\* text between the two section headings is replaced
UpdateAnalysisSection(a) ==
  /\ pc = "analysis"
  /\ a \in AgentSet
  /\ a \notin unreadable            \* readWorkingMemory throws
  /\ reportBody[a] < MaxUpdates
  /\ reportBody' = [reportBody EXCEPT ![a] = @ + 1]
  /\ UNCHANGED <<call, workingMemory, updateResult,
                 agents, maxRounds, currentRound, roundLimits, outputDir,
                 staleOutput, unreadable, logWritable, ledger, nextId, errorLog,
                 consoleErr, pc, tasks, roundsRun, tasksStarted, attempts,
                 skippedAt, startedAt, selected>>

\* the orchestrator's call of startCoordinationRound(agents)
StartCoordination ==
  /\ pc = "analysis"
  /\ call' = [n |-> 1, round |-> currentRound, rounds |-> roundsRun]
  /\ RunRound(currentRound)
  /\ UNCHANGED <<workingMemory, updateResult,
                 agents, maxRounds, currentRound, roundLimits, outputDir,
                 staleOutput, unreadable, logWritable, ledger, nextId, attempts,
                 reportBody>>

\* processQuestions resumes after `await answeringAgent.respondToQuestion`
\* for the head of the queue, and runs to the next await of the pair task
AnswerArrives(i, o) ==
  /\ pc = "round"
  /\ i \in 1..Len(tasks)
  /\ tasks[i].phase \in {"q12", "q21"}
  /\ LET t == tasks[i]
         id == Head(t.queue)
         asking == IF t.phase = "q12" THEN t.agent1 ELSE t.agent2
         answering == IF t.phase = "q12" THEN t.agent2 ELSE t.agent1
         pairKey == PairKey(t.agent1, t.agent2)
         writes == o # "throw" /\ outputDir = findAgentFileDir
         writeThrows == o # "throw" /\ outputDir # findAgentFileDir /\ ~staleOutput
         doc == IF writes
                THEN WriteResponse([reportBody |-> reportBody[asking],
                                    comments |-> ledger[asking]],
                                   id, respondToQuestion(o))
                ELSE [reportBody |-> reportBody[asking], comments |-> ledger[asking]]
         led == [ledger EXCEPT ![asking] = doc.comments]
         errs1 == IF o = "throw" \/ writeThrows
                  THEN <<QuestionError(asking, answering)>> ELSE <<>>
         rest == RemainingQuestions(t.queue, o = "throw" \/ writeThrows)
         next == IF t.phase = "q12"
                 THEN SecondDirection(led, t.agent1, t.agent2, currentRound)
                 ELSE [task |-> DoneTask(t.agent1, t.agent2), errors |-> <<>>]
         out == LogAll([errorLog |-> errorLog, consoleErr |-> consoleErr],
                       IF rest = <<>> THEN errs1 \o next.errors ELSE errs1)
     IN  /\ ledger' = led
         /\ reportBody' = [reportBody EXCEPT ![asking] = doc.reportBody]
         /\ attempts' = attempts \cup {[id |-> id, round |-> currentRound,
                                         answering |-> answering, outcome |-> o]}
         /\ errorLog' = out.errorLog
         /\ consoleErr' = out.consoleErr
         /\ IF rest = <<>>
            THEN /\ roundLimits' = incrementRoundCount(roundLimits, pairKey)
                 /\ tasks' = [tasks EXCEPT ![i] = next.task]
                 /\ selected' = selected \cup QuestionsOf(next.task, currentRound)
            ELSE /\ roundLimits' = roundLimits
                 /\ tasks' = [tasks EXCEPT ![i].queue = rest]
                 /\ selected' = selected
  /\ UNCHANGED <<call, workingMemory, updateResult,
                 agents, maxRounds, currentRound, outputDir, staleOutput,
                 unreadable, logWritable, nextId, pc, roundsRun, tasksStarted,
                 skippedAt, startedAt>>

\* a barrier that waits for one task only
AnySettled == \A i \in 1..Len(tasks) : i = 1 => tasks[i].phase = "done"

\* `await Promise.all(coordinationPromises)` has resumed
AllSettled == \A i \in 1..Len(tasks) : tasks[i].phase = "done"

\* after Promise.all: the guard is false, return true
Terminate ==
  /\ pc = "round"
  /\ AllSettled
  /\ \/ ~RoundsLeft(currentRound, maxRounds)
     \/ /\ unreadable = {}
        /\ ~hasPendingQuestions(ledger, agents)
  /\ pc' = "done"
  /\ UNCHANGED <<call, workingMemory, updateResult,
                 agents, maxRounds, currentRound, roundLimits, outputDir,
                 staleOutput, unreadable, logWritable, ledger, nextId, errorLog,
                 consoleErr, tasks, roundsRun, tasksStarted, attempts, skippedAt,
                 startedAt, selected, reportBody>>

\* after Promise.all: checkPendingQuestions reads an unreadable working file;
\* nothing catches the exception
ConvergenceCheckThrows ==
  /\ pc = "round"
  /\ AllSettled
  /\ RoundsLeft(currentRound, maxRounds)
  /\ unreadable # {}
  /\ pc' = "crashed"
  /\ UNCHANGED <<call, workingMemory, updateResult,
                 agents, maxRounds, currentRound, roundLimits, outputDir,
                 staleOutput, unreadable, logWritable, ledger, nextId, errorLog,
                 consoleErr, tasks, roundsRun, tasksStarted, attempts, skippedAt,
                 startedAt, selected, reportBody>>

\* after Promise.all: currentRound++ and the recursive call, up to its await
NextRound ==
  /\ pc = "round"
  /\ AllSettled
  /\ RoundsLeft(currentRound, maxRounds)
  /\ unreadable = {}
  /\ hasPendingQuestions(ledger, agents)
  /\ currentRound' = currentRound + 1
  /\ RunRound(currentRound + 1)
  /\ UNCHANGED <<call, workingMemory, updateResult,
                 agents, maxRounds, roundLimits, outputDir, staleOutput,
                 unreadable, logWritable, ledger, nextId, attempts, reportBody>>

Next ==
  \/ \E a \in Names, t \in Names, r \in 1..DefaultMaxRounds : AddComment(a, t, r)
  \/ StartCoordination
  \/ \E i \in 1..(Cardinality(Names) * Cardinality(Names)), o \in Outcomes : AnswerArrives(i, o)
  \/ Terminate
  \/ ConvergenceCheckThrows
  \/ NextRound

Spec == Init /\ [][Next]_vars

\* three agents, with the storage faults of b's working file and of the
\* output directory drawn independently
InitFaults ==
  InitWith(<<"a", "b", "c">>, 1..DefaultMaxRounds,
           {f \in [outputDir : OutputDirs, staleOutput : BOOLEAN,
                    unreadable : {{}, {"b"}}, logWritable : {TRUE}] :
              f.outputDir = findAgentFileDir => ~f.staleOutput},
           NoComments)

SpecFaults == InitFaults /\ [][Next]_vars

\* agents a and b that asked each other one question for each of the first
\* rounds (a for da rounds, b for db rounds), under a budget of the default
\* or one more: two questions a round use up a budget of four in two rounds
MutualLedger(da, db) ==
  [n \in Names |->
     CASE n = "a" -> [k \in 1..da |-> [id |-> k, targetAgent |-> "b", round |-> k,
                                       status |-> "pending", response |-> NoResponse]]
       [] n = "b" -> [k \in 1..db |-> [id |-> da + k, targetAgent |-> "a", round |-> k,
                                       status |-> "pending", response |-> NoResponse]]
       [] OTHER -> <<>>]

InitBudget ==
  \E da \in 0..BudgetDepth, db \in 0..BudgetDepth :
    InitWith(<<"a", "b">>, {DefaultMaxRounds, DefaultMaxRounds + 1},
             FaultConfigs({"a", "b"}), MutualLedger(da, db))

SpecBudget == InitBudget /\ [][Next]_vars

\* agents a and b that also rewrite the analysis section of their working
\* files before the coordination run
InitBody ==
  InitWith(<<"a", "b">>, {1, 2}, FaultConfigs({"a"}), NoComments)

NextBody ==
  \/ Next
  \/ \E a \in Names : UpdateAnalysisSection(a)

SpecBody == InitBody /\ [][NextBody]_vars

\* every agent Map with distinct names: the lists of distinct names, the
\* empty Map and the single agent included
DistinctLists ==
  {l \in UNION {[1..n -> Names] : n \in 0..Cardinality(Names)} :
     \A i \in DOMAIN l, j \in DOMAIN l : i # j => l[i] # l[j]}

InitPairs ==
  \E agentList \in DistinctLists :
    InitWith(agentList, {1, 2},
             IF agentList = <<>> THEN {NoFault}
             ELSE {NoFault, [NoFault EXCEPT !.unreadable = {agentList[1]}]},
             NoComments)

SpecPairs == InitPairs /\ [][Next]_vars

\* a second call where the first call would reset the round
RoundAtEntryReset(cur) == 1

\* this.currentRound as startCoordinationRound finds it: the method assigns
\* nothing to it, or to roundLimits, on entry
RoundAtEntry(cur) == cur

\* a further call of startCoordinationRound(agents) on the same manager, after
\* the call before it has returned or thrown
CallAgain ==
  /\ pc \in {"done", "crashed"}
  /\ call.n < MaxCalls
  /\ call' = [n |-> call.n + 1, round |-> RoundAtEntry(currentRound),
              rounds |-> roundsRun]
  /\ currentRound' = RoundAtEntry(currentRound)
  /\ RunRound(RoundAtEntry(currentRound))
  /\ UNCHANGED <<workingMemory, updateResult,
                 agents, maxRounds, roundLimits, outputDir, staleOutput,
                 unreadable, logWritable, ledger, nextId, attempts, reportBody>>

InitAgain ==
  InitWith(<<"a", "b">>, {1, 2}, {NoFault, [NoFault EXCEPT !.unreadable = {"a"}]},
           NoComments)

NextAgain ==
  \/ Next
  \/ CallAgain

SpecAgain == InitAgain /\ [][NextAgain]_vars

\* the texts an agent passes to updateAnalysisSection, and the texts written
\* to a working file with writeWorkingMemory
TextsUpTo(n) ==
  UNION {[1..k -> {OtherText, ResultsMarker, CoordinationMarker}] : k \in 0..n}
AnalysisContents == TextsUpTo(MaxContentLen)
FileContents == TextsUpTo(MaxFileLen)

\* BaseAgent.updateAnalysisSection(analysisContent) on the working file
UpdateAnalysisText(analysisContent) ==
  LET r == updateAnalysisSection(workingMemory, analysisContent)
  IN  /\ Len(r.content) <= MaxDocLen
      /\ workingMemory' = r.content
      /\ updateResult' = IF r.threw THEN "threw" ELSE "updated"
      /\ UNCHANGED <<call, agents, maxRounds, currentRound, roundLimits, outputDir,
                     staleOutput, unreadable, logWritable, ledger, nextId,
                     errorLog, consoleErr, pc, tasks, roundsRun, tasksStarted,
                     attempts, skippedAt, startedAt, selected, reportBody>>

\* BaseAgent.writeWorkingMemory(content): the file holds content
WriteWorkingMemory(content) ==
  /\ workingMemory' = content
  /\ updateResult' = "written"
  /\ UNCHANGED <<call, agents, maxRounds, currentRound, roundLimits, outputDir,
                 staleOutput, unreadable, logWritable, ledger, nextId,
                 errorLog, consoleErr, pc, tasks, roundsRun, tasksStarted,
                 attempts, skippedAt, startedAt, selected, reportBody>>

InitDoc == InitWith(<<"a", "b">>, {DefaultMaxRounds}, {NoFault}, NoComments)

NextDoc ==
  \/ \E analysisContent \in AnalysisContents : UpdateAnalysisText(analysisContent)
  \/ \E content \in FileContents : WriteWorkingMemory(content)

SpecDoc == InitDoc /\ [][NextDoc]_vars

\* agents whose names contain the separator of the pair key, as the names
\* 'code-quality' and 'api-quality' of the repository's agents do
DashedAgents == <<"a-b", "c", "a", "b-c">>
DashedNames == {DashedAgents[i] : i \in 1..Len(DashedAgents)}

\* a-b asked c one question for each of the first d1 rounds and a asked b-c
\* one for each of the first d2 rounds
DashedLedger(d1, d2) ==
  [n \in DashedNames |->
     CASE n = "a-b" -> [k \in 1..d1 |-> [id |-> k, targetAgent |-> "c", round |-> k,
                                         status |-> "pending", response |-> NoResponse]]
       [] n = "a" -> [k \in 1..d2 |-> [id |-> d1 + k, targetAgent |-> "b-c", round |-> k,
                                       status |-> "pending", response |-> NoResponse]]
       [] OTHER -> <<>>]

InitKeys ==
  \E d1 \in 0..BudgetDepth, d2 \in 0..BudgetDepth :
    /\ agents = DashedAgents
    /\ maxRounds \in 1..DefaultMaxRounds
    /\ currentRound = 1
    /\ roundLimits = [k \in {} |-> 0]
    /\ outputDir = NoFault.outputDir
    /\ staleOutput = NoFault.staleOutput
    /\ unreadable \in {{}, {"c"}}
    /\ logWritable = NoFault.logWritable
    /\ ledger = DashedLedger(d1, d2)
    /\ nextId = d1 + d2 + 1
    /\ errorLog = <<>>
    /\ consoleErr = <<>>
    /\ pc = "analysis"
    /\ tasks = <<>>
    /\ roundsRun = 0
    /\ tasksStarted = 0
    /\ attempts = {}
    /\ skippedAt = {}
    /\ startedAt = {}
    /\ selected = {}
    /\ reportBody = [n \in DashedNames |-> 0]
    /\ call = NoCall
    /\ workingMemory = NewWorkingFile
    /\ updateResult = "none"

\* the coordination run alone: the Comments are those of the ledger
NextKeys ==
  \/ StartCoordination
  \/ \E i \in 1..NumTasks(DashedAgents), o \in Outcomes : AnswerArrives(i, o)
  \/ Terminate
  \/ ConvergenceCheckThrows
  \/ NextRound

SpecKeys == InitKeys /\ [][NextKeys]_vars

\* ------------------------------------------------------------ vocabulary
Returned == pc = "done"
Threw == pc = "crashed"
Terminated == Returned \/ Threw

\* the Comments of the participating agents, each with its asking agent
Comments ==
  UNION {{[asking |-> n, c |-> ledger[n][k]] : k \in 1..Len(ledger[n])} : n \in AgentSet}

PendingComments == {x \in Comments : x.c.status = "pending"}

\* the Comments exchanged between the two agents of a pair
Between(n1, n2) ==
  {x \in Comments : \/ (x.asking = n1 /\ x.c.targetAgent = n2)
                     \/ (x.asking = n2 /\ x.c.targetAgent = n1)}

AllPairKeys == {PairKey(n1, n2) : n1 \in Names, n2 \in Names}

NumPairs(n) == (n * (n - 1)) \div 2

NoStorageFault == outputDir = findAgentFileDir /\ unreadable = {} /\ logWritable

LogEntries(log) == {log[i] : i \in 1..Len(log)}

\* all tasks of round r have settled
RoundFinished(r) ==
  \/ currentRound > r
  \/ (currentRound = r /\ (Terminated \/ (pc = "round" /\ AllSettled)))

\* ------------------------------------------------------------------ C1
\* C1: a run terminates, and at termination no Comment is pending or
\* currentRound equals maxRounds.  Stated on the final state: when the call
\* has ended (returned or thrown), one of the two holds.
C1_EndsConvergedOrExhausted ==
  Terminated => (PendingComments = {} \/ currentRound = maxRounds)

\* ------------------------------------------------------------------ C2
\* C2: a run on a fresh manager executes at most maxRounds rounds and starts
\* at most maxRounds * n*(n-1)/2 facilitateCoordination calls.
C2_RoundAndTaskBound ==
  /\ roundsRun <= maxRounds
  /\ tasksStarted <= maxRounds * NumPairs(Len(agents))

\* three agents, two or more rounds, every pair processed in every round
C2_Witness ==
  /\ Returned
  /\ Len(agents) = 3
  /\ maxRounds >= 2
  /\ roundsRun = maxRounds
  /\ tasksStarted = maxRounds * NumPairs(Len(agents))

\* ------------------------------------------------------------------ C3
\* C3: a pair's round counter never decreases and never exceeds maxRounds.
C3_CounterMonotoneBounded ==
  [][\A k \in AllPairKeys :
       /\ getRoundCount(roundLimits', k) >= getRoundCount(roundLimits, k)
       /\ getRoundCount(roundLimits', k) <= maxRounds]_vars

\* ------------------------------------------------------------------ C4
\* agents a and b, maxRounds = 1, one round-1 Comment from a to b, every
\* answer call of the run rejected, no storage fault
C4_Scenario ==
  /\ agents = <<"a", "b">>
  /\ maxRounds = 1
  /\ NoStorageFault
  /\ Len(ledger["a"]) = 1
  /\ ledger["a"][1].targetAgent = "b"
  /\ ledger["a"][1].round = 1
  /\ ledger["b"] = <<>>
  /\ \A at \in attempts : at.outcome = "throw"

\* C4: in that scenario, after round 1 the pair's counter equals maxRounds, a
\* timeout entry listing the 1 unresolved Comment is in the error log, and no
\* second round runs.
C4_TimeoutScenario ==
  (C4_Scenario /\ Returned) =>
    /\ getRoundCount(roundLimits, PairKey("a", "b")) = maxRounds
    /\ \E e \in LogEntries(errorLog) :
         e.kind = "timeout" /\ e.pair = PairKey("a", "b") /\ e.count = 1
    /\ roundsRun = 1

\* ------------------------------------------------------------------ C5
\* agents a and b, exactly one round-1 Comment from a to b, every answer
\* call of the run answered, both working files readable
C5_Scenario ==
  /\ agents = <<"a", "b">>
  /\ unreadable = {}
  /\ Len(ledger["a"]) = 1
  /\ ledger["a"][1].targetAgent = "b"
  /\ ledger["a"][1].round = 1
  /\ ledger["b"] = <<>>
  /\ \A at \in attempts : at.outcome = "ok"

\* C5: in that scenario round 1 resolves the Comment, the convergence check
\* finds nothing pending, and the run ends with currentRound = 1.
C5_ConvergesInOneRound ==
  (C5_Scenario /\ Returned) =>
    /\ ledger["a"][1].status = "resolved"
    /\ PendingComments = {}
    /\ currentRound = 1
    /\ roundsRun = 1

\* ------------------------------------------------------------------ C6
\* an error entry of the pair task of n1 and n2, or of one of its questions
ErrorLogged(n1, n2) ==
  \E e \in LogEntries(errorLog) \cup LogEntries(consoleErr) :
    e \in {CoordinationError(n1, n2), QuestionError(n1, n2), QuestionError(n2, n1)}

\* C6: agents a, b, c; the task of pair (a,b) fails on a storage error (b's
\* working file is unreadable) and the task of pair (a,c) runs without an
\* error: every Comment between a and c that was answered is resolved.
C6_FanOutIsolation ==
  \A x \in Between("a", "c") :
    ( /\ agents = <<"a", "b", "c">>
      /\ unreadable = {"b"}
      /\ ErrorLogged("a", "b")
      /\ ~ErrorLogged("a", "c")
      /\ \E at \in attempts : at.id = x.c.id /\ at.outcome = "ok" )
    => x.c.status = "resolved"

\* ------------------------------------------------------------------ C7
\* the record of the pair of n1 and n2 being handed to facilitateCoordination
\* in round r
PairStarted(n1, n2, r) ==
  \E s \in startedAt :
    s.round = r /\ s.pair \in {<<n1, n2>>, <<n2, n1>>}

\* C7: a Comment to a participating agent is attempted in every round that
\* runs while it is pending and its pair has budget left: when such a round
\* (the Comment's own round or a later one) has finished, the answer call
\* was made for it in that round.
C7_AttemptedEachRound ==
  \A x \in PendingComments : \A r \in 1..DefaultMaxRounds :
    ( /\ NoStorageFault
      /\ x.c.targetAgent \in AgentSet \ {x.asking}
      /\ x.c.round <= r
      /\ r <= roundsRun
      /\ RoundFinished(r)
      /\ PairStarted(x.asking, x.c.targetAgent, r) )
    => \E at \in attempts : at.id = x.c.id /\ at.round = r

\* ------------------------------------------------------------------ C8
\* C8: a Comment whose answer producer failed is still pending after the
\* attempt and has no response recorded.
C8_FailedAnswerStaysPending ==
  \A x \in Comments :
    ( /\ \E at \in attempts : at.id = x.c.id
      /\ \A at \in attempts : at.id = x.c.id => at.outcome = "fail" )
    => (x.c.status = "pending" /\ x.c.response = NoResponse)

\* ------------------------------------------------------------------ C9
\* the pending Comments between the agents of the pairs with this key
PendingForKey(pairKey) ==
  UNION {{x \in Between(agents[i], agents[j]) : x.c.status = "pending"} :
           <<i, j>> \in {q \in (1..Len(agents)) \X (1..Len(agents)) :
                           q[1] < q[2] /\ PairKey(agents[q[1]], agents[q[2]]) = pairKey}}

\* C9: every timeout entry written for a pair lists all the Comments pending
\* between its two agents at that moment.
C9_TimeoutListsPending ==
  [][\A i \in (Len(errorLog) + 1)..Len(errorLog') :
       errorLog'[i].kind = "timeout" =>
         errorLog'[i].count = Cardinality(PendingForKey(errorLog'[i].pair))]_vars

\* ----------------------------------------------------------------- C10
TimeoutsFor(pairKey) ==
  Cardinality({i \in 1..Len(errorLog) : errorLog[i] = TimeoutEntry(pairKey, <<>>)})
  + Cardinality({i \in 1..Len(consoleErr) : consoleErr[i] = TimeoutEntry(pairKey, <<>>)})

\* C10: a pair is handed to facilitateCoordination only with its counter
\* below maxRounds; a pair whose counter is >= maxRounds at the start of a
\* round is skipped: no answer call is made for a Comment of the pair in that
\* round, one timeout event is recorded for each skip, and the pair is not
\* processed in that round or in any later one.
C10_ExhaustedPairSkipped ==
  /\ \A s \in startedAt : s.count < maxRounds
  /\ \A s \in skippedAt :
       /\ s.count >= maxRounds
       /\ \A at \in attempts :
            at.round = s.round =>
              at.id \notin {x.c.id : x \in Between(s.pair[1], s.pair[2])}
       /\ \A t \in startedAt : t.pair = s.pair => t.round < s.round
       /\ TimeoutsFor(PairKey(s.pair[1], s.pair[2]))
            = Cardinality({t \in skippedAt : t.pair = s.pair})

\* a pair skipped in one round with a Comment still pending, a later round
\* run, and the call returned
C10_Witness ==
  /\ Returned
  /\ \E s \in skippedAt :
       /\ s.round < roundsRun
       /\ \E x \in Between(s.pair[1], s.pair[2]) : x.c.status = "pending"
       /\ \E t \in startedAt : t.pair = s.pair

\* ----------------------------------------------------------------- C11
\* no pair task of the round in progress is waiting for an answer
NoTaskRunning == \A i \in 1..Len(tasks) : tasks[i].phase \notin {"q12", "q21"}

\* C11: once all pairs of a round are processed, the step that follows starts
\* a further round exactly when currentRound < maxRounds and a Comment of a
\* participating agent is pending (whatever its round or target); in every
\* other case the call ends.
C11_FurtherRoundIff ==
  [][(pc = "round" /\ NoTaskRunning) =>
       /\ (pc' = "round" /\ currentRound' = currentRound + 1 /\ roundsRun' = roundsRun + 1)
            <=> (currentRound < maxRounds /\ PendingComments # {})
       /\ ~(currentRound < maxRounds /\ PendingComments # {}) => pc' \in {"done", "crashed"}]_vars

\* ----------------------------------------------------------------- C12
\* C12: no storage error propagates out of startCoordinationRound: the call
\* never ends by throwing.
C12_StorageErrorsCaught == ~Threw

\* ----------------------------------------------------------------- C13
Attempted(id, r) == \E at \in attempts : at.id = id /\ at.round = r

Queued(id) ==
  \E i \in 1..Len(tasks) : \E k \in 1..Len(tasks[i].queue) : tasks[i].queue[k] = id

\* the answer call rejected, or the write of the response threw
AttemptFailed(at) ==
  \/ at.outcome = "throw"
  \/ (outputDir # findAgentFileDir /\ ~staleOutput)

QuestionErrorsLogged ==
  Cardinality({i \in 1..Len(errorLog) : errorLog[i].kind = "error"
                 /\ \E n1 \in Names, n2 \in Names : errorLog[i].pair = n1 \o " to " \o n2})
  + Cardinality({i \in 1..Len(consoleErr) : consoleErr[i].kind = "error"
                 /\ \E n1 \in Names, n2 \in Names : consoleErr[i].pair = n1 \o " to " \o n2})

\* C13: every Comment selected for a direction is attempted or still waiting
\* its turn, whatever happened to the Comments before it, and by the end of
\* the round it was attempted; every failed attempt left one error entry.
C13_FailureDoesNotStopOthers ==
  /\ \A s \in selected :
       /\ Attempted(s.id, s.round) \/ (s.round = currentRound /\ pc = "round" /\ Queued(s.id))
       /\ RoundFinished(s.round) => Attempted(s.id, s.round)
  /\ QuestionErrorsLogged = Cardinality({at \in attempts : AttemptFailed(at)})

\* two Comments selected for the same direction in the same round, the answer
\* call of the first rejected, the second attempted
C13_Witness ==
  \E s1 \in selected, s2 \in selected :
    /\ s1.id < s2.id
    /\ s1.asking = s2.asking /\ s1.answering = s2.answering /\ s1.round = s2.round
    /\ \E at \in attempts : at.id = s1.id /\ at.outcome = "throw"
    /\ Attempted(s2.id, s2.round)

\* ----------------------------------------------------------------- C14
OtherResponse(response) == IF response = AnswerText THEN ErrorText ELSE AnswerText

\* C14: in every step every Comment keeps its place and id; a pending Comment
\* has no response; a resolved Comment stays as it is, status and response;
\* and resolving a resolved Comment again with a different response changes
\* nothing.
C14_ResolvedOnce ==
  [][\A n \in Names : \A k \in 1..Len(ledger[n]) :
       /\ k <= Len(ledger'[n])
       /\ ledger'[n][k].id = ledger[n][k].id
       /\ ledger'[n][k].status \in {"pending", "resolved"}
       /\ ledger[n][k].status = "pending" => ledger[n][k].response = NoResponse
       /\ ledger'[n][k].status = "resolved" => ledger'[n][k].response # NoResponse
       /\ ledger[n][k].status = "resolved" =>
            /\ ledger'[n][k] = ledger[n][k]
            /\ respondToComment(ledger[n], ledger[n][k].id,
                                OtherResponse(ledger[n][k].response)) = ledger[n]]_vars

\* a Comment resolved in round 1 and a second round run after it
C14_Witness ==
  /\ roundsRun >= 2
  /\ \E x \in Comments : x.c.round = 1 /\ x.c.status = "resolved"

\* ----------------------------------------------------------------- C15
\* C15: a Comment lives in the asking agent's document only, and the answer
\* the target returned is recorded in that very record: once the answer call
\* for a Comment has returned, the Comment in the asking agent's working file
\* is resolved with that answer; no id appears in two documents.
C15_AnswerInAskersDocument ==
  /\ \A x \in Comments :
       (\E at \in attempts : at.id = x.c.id /\ at.outcome = "ok")
         => (x.c.status = "resolved" /\ x.c.response = AnswerText)
  /\ \A x \in Comments, y \in Comments : x.c.id = y.c.id => x.asking = y.asking

\* ----------------------------------------------------------------- C16
AnsweredIn(id, r) ==
  \E at \in attempts : at.id = id /\ at.round = r /\ at.outcome = "ok"

\* C16: when the tasks of two pairs that share the asking agent both got an
\* answer for a Comment of that agent in the same round, both Comments are
\* resolved in its document after the round barrier.
C16_ConcurrentResolutionsKept ==
  \A x \in Comments, y \in Comments : \A r \in 1..DefaultMaxRounds :
    ( /\ x.asking = y.asking
      /\ x.c.targetAgent # y.c.targetAgent
      /\ AnsweredIn(x.c.id, r) /\ AnsweredIn(y.c.id, r)
      /\ RoundFinished(r) )
    => (x.c.status = "resolved" /\ y.c.status = "resolved")

\* ----------------------------------------------------------------- C17
\* C17: currentRound changes, a pair task is started during a run, and the
\* call ends, only in a step taken when no pair task of the round is running.
C17_RoundBarrier ==
  [][( \/ currentRound' # currentRound
       \/ (pc = "round" /\ tasksStarted' # tasksStarted)
       \/ (pc = "round" /\ roundsRun' # roundsRun)
       \/ (pc = "round" /\ pc' # "round") )
     => NoTaskRunning]_vars

\* three agents, answer calls of two different pair tasks made in round 1, a
\* second round started after them
C17_Witness ==
  /\ Len(agents) = 3
  /\ roundsRun >= 2
  /\ \E at1 \in attempts, at2 \in attempts :
       at1.round = 1 /\ at2.round = 1 /\ at1.answering # at2.answering

\* ----------------------------------------------------------------- C18
\* C18: while a coordination run is in progress the report text of every
\* working file stays as it was, and in the ledgers nothing changes but the
\* status and the response of Comments.
C18_ReportBodyUntouched ==
  [][pc = "round" =>
       /\ reportBody' = reportBody
       /\ \A n \in Names :
            /\ Len(ledger'[n]) = Len(ledger[n])
            /\ \A k \in 1..Len(ledger[n]) :
                 [ledger'[n][k] EXCEPT !.status = "", !.response = ""]
                   = [ledger[n][k] EXCEPT !.status = "", !.response = ""]]_vars

\* an agent that rewrote its analysis section, and whose Comment the run
\* then resolved
C18_Witness ==
  /\ Returned
  /\ \E x \in Comments : x.c.status = "resolved" /\ reportBody[x.asking] >= 1

\* ----------------------------------------------------------------- C19
\* the pair task of n1 and n2 in round r is past its first direction
FirstDirectionOver(n1, n2, r) ==
  \/ r < currentRound
  \/ (r = currentRound /\ \E i \in 1..Len(tasks) :
        tasks[i].agent1 = n1 /\ tasks[i].agent2 = n2 /\ tasks[i].phase \in {"q21", "done"})

\* C19: what checkForQuestions selected for a direction in round r are the
\* Comments of the asking agent's ledger that target the answering agent,
\* carry round r and were pending; all of those are selected when the ledger
\* is read; and an answer call is made only for a selected Comment, by its
\* target.
C19_AnswerCallsExactlySelected ==
  /\ \A s \in selected : \E k \in 1..Len(ledger[s.asking]) :
       LET c == ledger[s.asking][k]
       IN  /\ c.id = s.id
           /\ c.targetAgent = s.answering
           /\ c.round = s.round
           /\ ~Attempted(s.id, s.round) => c.status = "pending"
  /\ \A at \in attempts : \E s \in selected :
       s.id = at.id /\ s.round = at.round /\ s.answering = at.answering
  /\ \A st \in startedAt :
       LET n1 == st.pair[1]
           n2 == st.pair[2]
       IN  /\ n1 \notin unreadable =>
                \A k \in 1..Len(ledger[n1]) :
                  (ledger[n1][k].targetAgent = n2 /\ ledger[n1][k].round = st.round)
                    => [id |-> ledger[n1][k].id, round |-> st.round,
                        asking |-> n1, answering |-> n2] \in selected
           /\ (n1 \notin unreadable /\ n2 \notin unreadable
               /\ FirstDirectionOver(n1, n2, st.round)) =>
                \A k \in 1..Len(ledger[n2]) :
                  (ledger[n2][k].targetAgent = n1 /\ ledger[n2][k].round = st.round)
                    => [id |-> ledger[n2][k].id, round |-> st.round,
                        asking |-> n2, answering |-> n1] \in selected

\* round 1 finished with the answer call made for a's round-1 Comment to b
\* and not for a's round-2 Comment to b
C19_Witness ==
  /\ currentRound = 1
  /\ RoundFinished(1)
  /\ \E x \in Comments, y \in Comments :
       /\ x.asking = y.asking /\ x.c.targetAgent = y.c.targetAgent
       /\ x.c.round = 1 /\ y.c.round = 2
       /\ Attempted(x.c.id, 1)
       /\ \A at \in attempts : at.id # y.c.id

\* ----------------------------------------------------------------- C20
\* the pairs of the first round, as handed to facilitateCoordination
TaskPairs == [i \in 1..Len(tasks) |-> <<tasks[i].agent1, tasks[i].agent2>>]

\* C20: for n agents with distinct names getAgentPairs returns n*(n-1)/2
\* pairs, no agent paired with itself, every two distinct agents paired
\* exactly once (in one order or the other); these are the pairs the first
\* round processes.
C20_AllUnorderedPairsOnce ==
  LET pairs == getAgentPairs(agents)
  IN  /\ Len(pairs) = NumPairs(Len(agents))
      /\ \A k \in 1..Len(pairs) :
           pairs[k][1] # pairs[k][2] /\ {pairs[k][1], pairs[k][2]} \subseteq AgentSet
      /\ \A n1 \in AgentSet, n2 \in AgentSet :
           n1 # n2 =>
             Cardinality({k \in 1..Len(pairs) : {pairs[k][1], pairs[k][2]} = {n1, n2}}) = 1
      /\ (pc = "round" /\ roundsRun = 1) => TaskPairs = pairs

\* the first round of three agents listed as c, a, b
C20_Witness ==
  /\ pc = "round"
  /\ roundsRun = 1
  /\ agents = <<"c", "a", "b">>
  /\ Len(tasks) = 3

\* ----------------------------------------------------------------- C21
\* the directions (round, asking agent) between n1 and n2 that had a selected
\* Comment and whose selected Comments were all attempted
CompletedDirections(n1, n2) ==
  {d \in {[round |-> s.round, asking |-> s.asking] :
            s \in {t \in selected : {t.asking, t.answering} = {n1, n2}}} :
     \A s \in selected :
       (s.round = d.round /\ s.asking = d.asking /\ {s.asking, s.answering} = {n1, n2})
         => Attempted(s.id, s.round)}

\* C21: a pair's counter equals the number of directions, over the rounds,
\* that had at least one selected Comment and were processed to their end,
\* whatever the outcome of the answer calls: 0, 1 or 2 more each round.
C21_CounterCountsDirections ==
  /\ \A i \in 1..Len(agents), j \in 1..Len(agents) :
       i < j => getRoundCount(roundLimits, PairKey(agents[i], agents[j]))
                  = Cardinality(CompletedDirections(agents[i], agents[j]))
  /\ \A st \in startedAt :
       Cardinality({d \in CompletedDirections(st.pair[1], st.pair[2]) : d.round = st.round}) <= 2

\* after one round the pair's counter is 2, with every answer call rejected
C21_Witness ==
  /\ roundsRun = 1
  /\ RoundFinished(1)
  /\ getRoundCount(roundLimits, PairKey("a", "b")) = 2
  /\ attempts # {}
  /\ \A at \in attempts : at.outcome = "throw"

\* ----------------------------------------------------------------- C22
\* C22: currentRound is 1 before the run, lies in 1..maxRounds in every state,
\* and changes only by +1, in a step taken at a round boundary.
C22_CurrentRoundInRange ==
  [][/\ pc = "analysis" => currentRound = 1
     /\ currentRound \in 1..maxRounds
     /\ currentRound' \in 1..maxRounds
     /\ currentRound' # currentRound =>
          (currentRound' = currentRound + 1 /\ pc = "round" /\ NoTaskRunning)]_vars

\* a run with the default budget that ended in its last round
C22_Witness ==
  /\ Returned
  /\ maxRounds = DefaultMaxRounds
  /\ currentRound = maxRounds

\* ----------------------------------------------------------------- C23
\* C23: no ledger holds a Comment whose target is the asking agent itself.
C23_NoSelfTarget ==
  \A x \in Comments : x.c.targetAgent # x.asking

\* ----------------------------------------------------------------- C24
IsPrefix(s, t) == Len(s) <= Len(t) /\ \A i \in 1..Len(s) : t[i] = s[i]

\* C24: every step keeps the entries of the log, in order, as a prefix of the
\* log; an entry that cannot be written goes to the console and the log is as
\* before; and a step of a run whose log cannot be written never ends the
\* run with an error.
C24_LogAppendOnly ==
  [][/\ IsPrefix(errorLog, errorLog')
     /\ IsPrefix(consoleErr, consoleErr')
     /\ Len(errorLog') + Len(consoleErr') >= Len(errorLog) + Len(consoleErr)
     /\ logWritable => consoleErr' = consoleErr
     /\ ~logWritable => (errorLog' = errorLog /\ pc' # "crashed")]_vars

\* a log of two entries, the first an error and the second a timeout
C24_Witness ==
  /\ Len(errorLog) >= 2
  /\ errorLog[1].kind = "error"
  /\ errorLog[2].kind = "timeout"

\* ----------------------------------------------------------------- C25
\* the directions of a pair completed in the rounds before round r
CompletedBefore(pair, r) ==
  {d \in CompletedDirections(pair[1], pair[2]) : d.round < r}

\* C25: two different pairs of the agent Map have different pair keys, and
\* so separate counters: the count a round finds for a pair is the number of
\* directions of that pair completed in the rounds before.
C25_PairKeysDistinct ==
  /\ \A i \in 1..Len(agents), j \in 1..Len(agents), k \in 1..Len(agents), l \in 1..Len(agents) :
       (i < j /\ k < l /\ <<i, j>> # <<k, l>>)
         => PairKey(agents[i], agents[j]) # PairKey(agents[k], agents[l])
  /\ \A st \in startedAt \cup skippedAt :
       st.count = Cardinality(CompletedBefore(st.pair, st.round))

\* ----------------------------------------------------------------- C26
\* C26: a Comment of a participating agent whose target is not a participating
\* agent, or is the asking agent, never gets an answer call; at the end of the
\* run it is pending and the run has executed maxRounds rounds.
C26_UnanswerableComment ==
  \A x \in Comments :
    (x.asking \in AgentSet /\ x.c.targetAgent \notin (AgentSet \ {x.asking})) =>
      /\ \A at \in attempts : at.id # x.c.id
      /\ Terminated => (x.c.status = "pending" /\ roundsRun = maxRounds)

\* ----------------------------------------------------------------- C27
\* C27: in a pair task a Comment of agent2 for agent1 is selected only after
\* every Comment selected from agent1 for agent2 in that round was attempted;
\* when agent1's working file cannot be read, nothing is selected from agent2
\* for agent1, the pair's counter stays 0 and the error is logged.
C27_DirectionsInOrder ==
  \A st \in startedAt :
    LET n1 == st.pair[1]
        n2 == st.pair[2]
    IN  /\ \A s2 \in selected :
             (s2.round = st.round /\ s2.asking = n2 /\ s2.answering = n1) =>
               /\ n1 \notin unreadable
               /\ \A s1 \in selected :
                    (s1.round = st.round /\ s1.asking = n1 /\ s1.answering = n2)
                      => Attempted(s1.id, s1.round)
        /\ n1 \in unreadable =>
             /\ getRoundCount(roundLimits, PairKey(n1, n2)) = 0
             /\ \E e \in LogEntries(errorLog) \cup LogEntries(consoleErr) :
                  e = CoordinationError(n1, n2)

\* the first agent of a pair unreadable, a Comment of the second for the
\* first in the round that has finished, still pending
C27_Witness ==
  \E st \in startedAt : \E x \in PendingComments :
    /\ st.pair[1] \in unreadable
    /\ x.asking = st.pair[2]
    /\ x.c.targetAgent = st.pair[1]
    /\ x.c.round = st.round
    /\ RoundFinished(st.round)

\* ----------------------------------------------------------------- C28
TimeoutsIn(log, pairKey) ==
  Cardinality({i \in 1..Len(log) : log[i].kind = "timeout" /\ log[i].pair = pairKey})

\* the pairs of the agent list whose key is pairKey
PairsWithKey(pairKey) ==
  {q \in (1..Len(agents)) \X (1..Len(agents)) :
     q[1] < q[2] /\ PairKey(agents[q[1]], agents[q[2]]) = pairKey}

\* C28: a step writes a timeout entry for a pair exactly when it starts a
\* round and the pair's counter is >= maxRounds, one entry for each such
\* round; a pair for which no Comment was ever selected has counter 0 and no
\* timeout entry.
C28_TimeoutOnlyWhenExhausted ==
  [][\A k \in AllPairKeys :
       /\ TimeoutsIn(errorLog', k) + TimeoutsIn(consoleErr', k)
            = TimeoutsIn(errorLog, k) + TimeoutsIn(consoleErr, k)
              + (IF /\ roundsRun' = roundsRun + 1
                    /\ PairsWithKey(k) # {}
                    /\ getRoundCount(roundLimits, k) >= maxRounds
                 THEN 1 ELSE 0)
       /\ (\A s \in selected' : PairKey(s.asking, s.answering) # k
                                /\ PairKey(s.answering, s.asking) # k) =>
            /\ getRoundCount(roundLimits', k) = 0
            /\ TimeoutsIn(errorLog', k) + TimeoutsIn(consoleErr', k) = 0]_vars

\* a pair with a timeout entry from each of two rounds
C28_Witness ==
  /\ TimeoutsIn(errorLog, PairKey("a", "b")) >= 2
  /\ Cardinality({s.round : s \in skippedAt}) >= 2

\* ----------------------------------------------------------------- C29
\* the round of the Comment id in the ledgers
CommentRound(id) == (CHOOSE x \in Comments : x.c.id = id).c.round

\* C29: a further call starts with the currentRound and the counters the call
\* before it left; a call entered with currentRound = maxRounds, after the
\* first, executes one round, and every Comment it selects has round maxRounds.
C29_SecondCallContinues ==
  [][/\ (call.n >= 1 /\ call'.n = call.n + 1) =>
          /\ currentRound' = currentRound
          /\ roundLimits' = roundLimits
          /\ call'.round = currentRound
     /\ (call'.n >= 2 /\ call'.round = maxRounds) =>
          /\ roundsRun' = call'.rounds + 1
          /\ \A i \in 1..Len(tasks') : \A k \in 1..Len(tasks'[i].queue) :
               CommentRound(tasks'[i].queue[k]) = maxRounds]_vars

\* a second call entered in the last round of a budget of two, with a Comment
\* of that round selected
C29_Witness ==
  /\ call.n = 2
  /\ call.round = maxRounds
  /\ maxRounds = 2
  /\ pc = "round"
  /\ \E i \in 1..Len(tasks) : tasks[i].queue # <<>>

\* ----------------------------------------------------------------- C30
\* the coordination region of a text: from the '## Coordination' heading to
\* the end
CoordinationRegion(content) ==
  IF IndexOf(content, CoordinationMarker) = 0 THEN <<>>
  ELSE SubSeq(content, IndexOf(content, CoordinationMarker), Len(content))

\* C30: a call of updateAnalysisSection on a text with both headings leaves
\* the coordination region as it was; on a text without one of the headings
\* it throws and leaves the text as it was.
C30_CoordinationRegionKept ==
  [][updateResult' \in {"updated", "threw"} =>
       IF \/ IndexOf(workingMemory, ResultsMarker) = 0
          \/ IndexOf(workingMemory, CoordinationMarker) = 0
       THEN updateResult' = "threw" /\ workingMemory' = workingMemory
       ELSE /\ updateResult' = "updated"
            /\ CoordinationRegion(workingMemory') = CoordinationRegion(workingMemory)]_vars
====
